---- MODULE Spec2Model ----
(***************************************************************************)
(* HierarchicalClusteringIndex (flann): a forest of hierarchical cluster   *)
(* trees, built by computeClustering, extended by addPoints, and searched  *)
(* best-bin-first by findNeighbors.  Vectors have one coordinate and the   *)
(* distance is the squared difference.                                     *)
(***************************************************************************)
EXTENDS Integers, Sequences, FiniteSets, TLC

\* ------------------------------------------------------------------ bounds
MaxBranching == 3
MaxTrees == 2
MaxLeafSize == 3
MaxSize == 3
MaxCoord == 2
MaxRows == 2
MaxK == 2
MaxQuery == 1
MaxRemoved == 1

\* the coordinates of the dataset are multiples of 4, so that a point can lie
\* midway between two others; the queries lie off the points (3) and on one (4)
Coord == {4 * i : i \in 0..MaxCoord}
Queries == {3 + i : i \in 0..MaxQuery}
MaxChecks == MaxSize
\* leaf_size_ 1 asks the chooser on every non-empty set, MaxLeafSize leaves
\* small sets unsplit
LeafSizes == {1, MaxLeafSize}
\* rebuild_threshold is a float; the values 0, 1, 1.5, 2 are kept as twice
\* their value
Thresholds2 == {0, 2, 3, 4}

VARIABLES branching_, trees_, leaf_size_, points_, removed_points_,
          tree_roots_, size_at_build_, err, op, call

vars == <<branching_, trees_, leaf_size_, points_, removed_points_,
          tree_roots_, size_at_build_, err, op, call>>

\* ----------------------------------------------------------------- helpers
NULL == -1
NoError == ""
BranchingError == "Branching factor must be at least 2"
NoCall == [vec |-> NULL]

SeqsUpTo(S, n) == UNION {[1..m -> S] : m \in 0..n}

Range(s) == {s[i] : i \in 1..Len(s)}

Swap(s, a, b) == [s EXCEPT ![a] = s[b], ![b] = s[a]]

\* points_[i] for a 0-based dataset index i
Point(pts, i) == pts[i + 1]

\* distance_(a, b, veclen_) with veclen_ = 1: squared L2
distance_(a, b) == (a - b) * (a - b)

\* a freshly constructed Node: no pivot, no childs, no points
Node == [pivot |-> NULL, childs |-> <<>>, points |-> <<>>]

\* ----------------------------------------------------------- center chooser
DistinctVectors(pts, indices) == {Point(pts, indices[i]) : i \in 1..Len(indices)}

\* (*chooseCenters_)(branching_, indices, indices_length, centers, centers_length):
\* branching_ candidate indices whose vectors differ pairwise, in any order;
\* fewer than branching_ centers (the empty sequence here) when the candidates
\* hold fewer than branching_ distinct vectors.
chooseCenters(pts, indices) ==
    IF Cardinality(DistinctVectors(pts, indices)) < branching_
    THEN {<<>>}
    ELSE {c \in [1..branching_ -> Range(indices)] :
            \A a, b \in 1..branching_ :
               a # b => Point(pts, c[a]) # Point(pts, c[b])}

\* -------------------------------------------------------------- the builder
RECURSIVE nearestCenter(_, _, _, _, _, _)
\* the inner loop of computeLabels: the label (1-based here) of the nearest
\* center, the lowest one on ties
nearestCenter(pts, point, centers, j, label, dist) ==
    IF j > Len(centers) THEN label
    ELSE LET new_dist == distance_(point, Point(pts, centers[j]))
         IN IF dist > new_dist
            THEN nearestCenter(pts, point, centers, j + 1, j, new_dist)
            ELSE nearestCenter(pts, point, centers, j + 1, label, dist)

computeLabels(pts, indices, centers) ==
    [i \in 1..Len(indices) |->
        nearestCenter(pts, Point(pts, indices[i]), centers, 2, 1,
                      distance_(Point(pts, indices[i]), Point(pts, centers[1])))]

RECURSIVE partitionLabel(_, _, _, _, _)
\* the loop over j of computeClustering for one label i: every entry labelled
\* i is swapped to position end (0-based count of entries already placed)
partitionLabel(indices, labels, i, j, end) ==
    IF j > Len(indices)
    THEN [indices |-> indices, labels |-> labels, end |-> end]
    ELSE IF labels[j] = i
         THEN partitionLabel(Swap(indices, j, end + 1), Swap(labels, j, end + 1),
                             i, j + 1, end + 1)
         ELSE partitionLabel(indices, labels, i, j + 1, end)

\* makeLeaf appending the indices to the points the node already holds
makeLeafAppend(node, indices) ==
    [node EXCEPT !.points = @ \o indices, !.childs = <<>>]

\* the leaf case of computeClustering: points := indices, childs cleared
makeLeaf(node, indices) == [node EXCEPT !.points = indices, !.childs = <<>>]

isLeafSize(indices_length) == indices_length < leaf_size_

RECURSIVE computeClustering(_, _, _)
RECURSIVE clusterChilds(_, _, _, _, _, _)

\* the set of nodes computeClustering(node, indices, indices_length) can leave
\* in node, one for each outcome of the center chooser
computeClustering(pts, node, indices) ==
    IF isLeafSize(Len(indices))
    THEN {makeLeaf(node, indices)}
    ELSE UNION {
           IF Len(centers) < branching_
           THEN {makeLeaf(node, indices)}
           ELSE {[node EXCEPT !.childs = ch] :
                   ch \in clusterChilds(pts, indices,
                                        computeLabels(pts, indices, centers),
                                        centers, 1, 0)}
           : centers \in chooseCenters(pts, indices)}

\* the loop over i of computeClustering from child i on: partition label i,
\* allocate child i with its pivot and recurse on its slice.  The recursion
\* reorders only the slice of child i, which the later iterations never read.
clusterChilds(pts, indices, labels, centers, i, start) ==
    IF i > branching_ THEN {<<>>}
    ELSE LET p == partitionLabel(indices, labels, i, 1, start)
             child == [pivot |-> centers[i], childs |-> <<>>, points |-> <<>>]
             slice == SubSeq(p.indices, start + 1, p.end)
         IN {<<c>> \o rest :
               c \in computeClustering(pts, child, slice),
               rest \in clusterChilds(pts, p.indices, p.labels, centers,
                                      i + 1, p.end)}

RECURSIVE buildTrees(_, _)
\* the loop over the trees of buildIndex: indices = 0..size_-1, a new root
buildTrees(pts, i) ==
    IF i > trees_ THEN {<<>>}
    ELSE {<<t>> \o rest :
            t \in computeClustering(pts, Node, [j \in 1..Len(pts) |-> j - 1]),
            rest \in buildTrees(pts, i + 1)}

\* buildIndex testing branching_ after tree_roots_.resize(trees_)
buildIndexLateTest(pts, roots, sab) ==
    IF branching_ < 2
    THEN {[roots |-> [i \in 1..trees_ |-> NULL], size_at_build |-> sab,
           err |-> BranchingError]}
    ELSE {[roots |-> f, size_at_build |-> Len(pts), err |-> NoError] :
            f \in buildTrees(pts, 1)}

\* buildIndex(): the outcomes [roots, size_at_build, err]
buildIndex(pts, roots, sab) ==
    IF branching_ < 2
    THEN {[roots |-> roots, size_at_build |-> sab, err |-> BranchingError]}
    ELSE {[roots |-> f, size_at_build |-> Len(pts), err |-> NoError] :
            f \in buildTrees(pts, 1)}

\* ------------------------------------------------------ incremental insert
RECURSIVE closestChild(_, _, _, _, _, _)
\* the loop of addPointToTree over the childs' pivots
closestChild(pts, node, point, i, closest, dist) ==
    IF i > branching_ THEN closest
    ELSE LET crt_dist == distance_(Point(pts, node.childs[i].pivot), point)
         IN IF crt_dist < dist
            THEN closestChild(pts, node, point, i + 1, i, crt_dist)
            ELSE closestChild(pts, node, point, i + 1, closest, dist)

\* overflows with > for >=
overflowsLate(n) == n > branching_

overflows(n) == n >= branching_

RECURSIVE addPointToTree(_, _, _)
addPointToTree(pts, node, index) ==
    IF node.childs = <<>>
    THEN LET n1 == [node EXCEPT !.points = Append(@, index)]
         IN IF overflows(Len(n1.points))
            THEN computeClustering(pts, n1, n1.points)
            ELSE {n1}
    ELSE LET point == Point(pts, index)
             closest == closestChild(pts, node, point, 2, 1,
                          distance_(Point(pts, node.childs[1].pivot), point))
         IN {[node EXCEPT !.childs[closest] = c] :
               c \in addPointToTree(pts, node.childs[closest], index)}

RECURSIVE insertRows(_, _, _, _, _)
\* the two loops of the else branch of addPoints: row i (0-based), tree j
insertRows(pts, roots, old_size, rows, i) ==
    IF i >= rows THEN {roots}
    ELSE LET RECURSIVE intoTrees(_, _)
             intoTrees(f, j) ==
                 IF j > trees_ THEN {f}
                 ELSE UNION {intoTrees([f EXCEPT ![j] = t], j + 1) :
                               t \in addPointToTree(pts, f[j], old_size + i)}
         IN UNION {insertRows(pts, f, old_size, rows, i + 1) :
                     f \in intoTrees(roots, 1)}

\* needsRebuild with <= for <
needsRebuildAtEqual(thr2, sab, size) == thr2 > 2 /\ sab * thr2 <= 2 * size

\* rebuild_threshold>1 && size_at_build_*rebuild_threshold<size_
needsRebuild(thr2, sab, size) == thr2 > 2 /\ sab * thr2 < 2 * size

\* extendDataset(points): the new rows are appended to the dataset
extendDataset(pts, rows) == pts \o rows

\* addPoints(points, rebuild_threshold): the outcomes
\* [points, roots, size_at_build, err, op].  The incremental branch reads
\* tree_roots_[j] for every tree j: with a row to insert and no such root the
\* read is out of bounds, which is undefined behaviour.  Whatever the build
\* does then, the call is recorded as op = "crashed" and the program is
\* followed no further.
addPoints(pts, roots, sab, rows, thr2) ==
    LET old_size == Len(pts)
        newpts == extendDataset(pts, rows)
    IN IF needsRebuild(thr2, sab, Len(newpts))
       THEN {[points |-> newpts, roots |-> r.roots,
              size_at_build |-> r.size_at_build, err |-> r.err,
              op |-> "addPoints:rebuild"] :
               r \in buildIndex(newpts, roots, sab)}
       ELSE IF Len(rows) > 0 /\ Len(roots) < trees_
            THEN {[points |-> newpts, roots |-> roots, size_at_build |-> sab,
                   err |-> NoError, op |-> "crashed"]}
            ELSE {[points |-> newpts, roots |-> f, size_at_build |-> sab,
                   err |-> NoError, op |-> "addPoints:insert"] :
                    f \in insertRows(newpts, roots, old_size, Len(rows), 0)}

\* ---------------------------------------------------------------- ResultSet
\* a k-nearest-neighbour ResultSet: at most k pairs, by ascending distance
full(result, k) == Len(result) = k

addPoint(result, k, dist, index) ==
    LET pos == Cardinality({i \in 1..Len(result) : result[i].dist <= dist})
        ins == SubSeq(result, 1, pos) \o <<[dist |-> dist, index |-> index]>>
               \o SubSeq(result, pos + 1, Len(result))
    IN IF Len(ins) > k THEN SubSeq(ins, 1, k) ELSE ins

\* --------------------------------------------------------------------- Heap
\* a min-heap of branches [node, mindist]; among equal keys the one inserted
\* first is popped first
heapInsert(heap, branch) == Append(heap, branch)

heapMinPos(heap) ==
    CHOOSE i \in 1..Len(heap) :
        /\ \A j \in 1..Len(heap) : heap[i].mindist <= heap[j].mindist
        /\ \A j \in 1..(i - 1) : heap[j].mindist > heap[i].mindist

heapRemove(heap, i) == SubSeq(heap, 1, i - 1) \o SubSeq(heap, i + 1, Len(heap))

\* ----------------------------------------------------------------- searcher
\* A query q is [pts, removed, vec, k, maxChecks]; the locals of a running
\* findNeighbors are s = [result, checks, heap, checked, events].  events logs
\* what the call does: "leaf" when a descent reaches a leaf (with the points
\* of the leaf), "score" before a point is offered to the result, "pop" when
\* the loop body runs, each with the checks counter and the result at that
\* moment.
Event(type, index, points, q, s) ==
    [type |-> type, index |-> index, points |-> points, checks |-> s.checks,
     full |-> full(s.result, q.k), result |-> s.result]

\* skipsPoint without the test of removed_points_
skipsPointChecked(q, s, index) == index \in s.checked

\* checked.test(index) || removed_points_.test(index)
skipsPoint(q, s, index) == index \in s.checked \/ index \in q.removed

\* scorePoint without checked.set(index)
scorePointUnset(q, s, index) ==
    [s EXCEPT !.result = addPoint(@, q.k, distance_(Point(q.pts, index), q.vec),
                                  index),
              !.checks = @ + 1,
              !.events = Append(@, Event("score", index, <<>>, q, s))]

\* one iteration of the for loop of findNN past the continue
scorePoint(q, s, index) ==
    [s EXCEPT !.result = addPoint(@, q.k, distance_(Point(q.pts, index), q.vec),
                                  index),
              !.checked = @ \cup {index},
              !.checks = @ + 1,
              !.events = Append(@, Event("score", index, <<>>, q, s))]

RECURSIVE scanLeaf(_, _, _, _)
\* the for loop of findNN over node->points
scanLeaf(q, points, i, s) ==
    IF i > Len(points) THEN s
    ELSE IF skipsPoint(q, s, points[i])
         THEN scanLeaf(q, points, i + 1, s)
         ELSE scanLeaf(q, points, i + 1, scorePoint(q, s, points[i]))

\* leafReturns with == for >=, and with > for >=
leafReturnsAtEqual(q, s) == s.checks = q.maxChecks /\ full(s.result, q.k)
leafReturnsLate(q, s) == s.checks > q.maxChecks /\ full(s.result, q.k)

\* if (checks>=maxChecks) { if (result.full()) return; }
leafReturns(q, s) == s.checks >= q.maxChecks /\ full(s.result, q.k)

RECURSIVE bestIndex(_, _, _, _)
\* the loop of findNN over domain_distances: the first child of least distance
bestIndex(q, node, i, best_index) ==
    IF i > branching_ THEN best_index
    ELSE IF distance_(q.vec, Point(q.pts, node.childs[i].pivot))
            < distance_(q.vec, Point(q.pts, node.childs[best_index].pivot))
         THEN bestIndex(q, node, i + 1, i)
         ELSE bestIndex(q, node, i + 1, best_index)

RECURSIVE pushOthers(_, _, _, _, _)
\* the loop of findNN that inserts every child but the best into the heap
pushOthers(q, node, i, best_index, heap) ==
    IF i > branching_ THEN heap
    ELSE IF i # best_index
         THEN pushOthers(q, node, i + 1, best_index,
                heapInsert(heap,
                  [node |-> node.childs[i],
                   mindist |-> distance_(q.vec, Point(q.pts, node.childs[i].pivot))]))
         ELSE pushOthers(q, node, i + 1, best_index, heap)

RECURSIVE findNN(_, _, _)
findNN(q, node, s) ==
    IF node.childs = <<>>
    THEN LET s1 == [s EXCEPT !.events = Append(@, Event("leaf", NULL, node.points, q, s))]
         IN IF leafReturns(q, s) THEN s1 ELSE scanLeaf(q, node.points, 1, s1)
    ELSE LET best_index == bestIndex(q, node, 2, 1)
         IN findNN(q, node.childs[best_index],
                   [s EXCEPT !.heap = pushOthers(q, node, 1, best_index, @)])

RECURSIVE descendRoots(_, _, _, _)
\* the for loop of findNeighbors over the trees
descendRoots(q, roots, i, s) ==
    IF i > trees_ THEN s
    ELSE descendRoots(q, roots, i + 1, findNN(q, roots[i], s))

\* continues with && for ||
continuesBoth(q, s) == s.checks < q.maxChecks /\ ~full(s.result, q.k)

\* the second conjunct of the while condition of findNeighbors
continues(q, s) == s.checks < q.maxChecks \/ ~full(s.result, q.k)

RECURSIVE popLoop(_, _)
\* while (heap->popMin(branch) && (checks<maxChecks || !result.full()))
popLoop(q, s) ==
    IF s.heap = <<>> THEN s
    ELSE LET i == heapMinPos(s.heap)
             s1 == [s EXCEPT !.heap = heapRemove(@, i)]
         IN IF continues(q, s1)
            THEN popLoop(q, findNN(q, s.heap[i].node,
                           [s1 EXCEPT !.events = Append(@, Event("pop", NULL, <<>>, q, s1))]))
            ELSE s1

findNeighbors(q, roots) ==
    popLoop(q, descendRoots(q, roots, 1,
                 [result |-> <<>>, checks |-> 0, heap |-> <<>>, checked |-> {},
                  events |-> <<>>]))

\* ------------------------------------------------------------------ actions
\* The state after construction: the parameters, the dataset given to the
\* constructor (possibly none), no root, size_at_build_ = 0.
Init ==
    /\ branching_ \in 1..MaxBranching
    /\ trees_ \in 1..MaxTrees
    /\ leaf_size_ \in LeafSizes
    /\ points_ \in SeqsUpTo(Coord, MaxSize)
    /\ removed_points_ = {}
    /\ tree_roots_ = <<>>
    /\ size_at_build_ = 0
    /\ err = NoError
    /\ op = "construct"
    /\ call = NoCall

\* op is the last operation that changed the index, err the exception it
\* threw; call holds the arguments and the locals of a findNeighbors call
\* that has returned, until the caller has read them (Return).
Crashed == op = "crashed"
Idle == ~Crashed /\ call = NoCall

BuildIndex ==
    /\ Idle
    /\ \E r \in buildIndex(points_, tree_roots_, size_at_build_) :
         /\ tree_roots_' = r.roots
         /\ size_at_build_' = r.size_at_build
         /\ err' = r.err
    /\ op' = "buildIndex"
    /\ UNCHANGED <<branching_, trees_, leaf_size_, points_, removed_points_, call>>

AddPoints(rows, thr2) ==
    /\ Idle
    /\ Len(points_) + Len(rows) <= MaxSize
    /\ \E r \in addPoints(points_, tree_roots_, size_at_build_, rows, thr2) :
         /\ points_' = r.points
         /\ tree_roots_' = r.roots
         /\ size_at_build_' = r.size_at_build
         /\ err' = r.err
         /\ op' = r.op
    /\ UNCHANGED <<branching_, trees_, leaf_size_, removed_points_, call>>

\* removePoint(id) of the dataset layer: the removed flag of id is set
RemovePoint(id) ==
    /\ Idle
    /\ id \notin removed_points_
    /\ Cardinality(removed_points_) < MaxRemoved
    /\ removed_points_' = removed_points_ \cup {id}
    /\ UNCHANGED <<branching_, trees_, leaf_size_, points_, tree_roots_,
                   size_at_build_, err, op, call>>

\* findNeighbors(result, vec, searchParams) with an empty k-nearest result and
\* searchParams.checks = maxChecks.  It reads tree_roots_[i] for every tree
\* i: without roots the read is out of bounds and the call crashes.
FindNeighbors(vec, k, maxChecks) ==
    /\ Idle
    /\ IF Len(tree_roots_) < trees_
       THEN /\ op' = "crashed"
            /\ call' = call
       ELSE /\ op' = op
            /\ LET q == [pts |-> points_, removed |-> removed_points_,
                         vec |-> vec, k |-> k, maxChecks |-> maxChecks]
                   s == findNeighbors(q, tree_roots_)
               IN call' = [vec |-> vec, k |-> k, maxChecks |-> maxChecks,
                           result |-> s.result, checks |-> s.checks,
                           events |-> s.events]
    /\ UNCHANGED <<branching_, trees_, leaf_size_, points_, removed_points_,
                   tree_roots_, size_at_build_, err>>

\* the caller is done with the result of the last findNeighbors call
Return ==
    /\ call # NoCall
    /\ call' = NoCall
    /\ UNCHANGED <<branching_, trees_, leaf_size_, points_, removed_points_,
                   tree_roots_, size_at_build_, err, op>>

Build == BuildIndex
Add == \E rows \in SeqsUpTo(Coord, MaxRows), thr2 \in Thresholds2 :
          AddPoints(rows, thr2)
AddOne == \E x \in Coord : AddPoints(<<x>>, 0)
Remove == \E id \in 0..(Len(points_) - 1) : RemovePoint(id)
\* a budget of 0 checks behaves as a budget of 1: no result is full before the
\* first check
Find == \E vec \in Queries, k \in 1..MaxK, maxChecks \in 1..MaxChecks :
          FindNeighbors(vec, k, maxChecks)

Next == Build \/ Add \/ Remove \/ Find \/ Return

Spec == Init /\ [][Next]_vars

\* The life cycle of the forest alone: the removed flags and the queries do
\* not change the forest.
NextIndex == Build \/ Add

SpecIndex == Init /\ [][NextIndex]_vars

\* The queries.  Every dataset, forest and removed set that Next reaches is
\* reached here: Init draws any dataset, buildIndex leaves the same forests
\* on a built index as on a new one of that dataset, a rebuild by addPoints
\* leaves the forests of buildIndex, and addPoints inserts its rows one after
\* the other.
BuildNew == tree_roots_ = <<>> /\ BuildIndex

NextSearch == BuildNew \/ AddOne \/ Remove \/ Find \/ Return

SpecSearch == Init /\ [][NextSearch]_vars

\* ------------------------------------------------------------------- properties
Built == Len(tree_roots_) = trees_

RECURSIVE LeafPoints(_)
\* the point lists of the leaves (the nodes with no childs) of a tree, joined
LeafPoints(node) ==
    IF node.childs = <<>> THEN node.points
    ELSE LET RECURSIVE join(_)
             join(i) == IF i > Len(node.childs) THEN <<>>
                        ELSE LeafPoints(node.childs[i]) \o join(i + 1)
         IN join(1)

RECURSIVE LeafNodes(_)
LeafNodes(node) ==
    IF node.childs = <<>> THEN {node}
    ELSE UNION {LeafNodes(node.childs[i]) : i \in 1..Len(node.childs)}

RECURSIVE HasSplitLeaf(_)
\* some inner node still holds the points it had as a leaf: addPointToTree
\* has split it
HasSplitLeaf(node) ==
    /\ node.childs # <<>>
    /\ \/ node.points # <<>>
       \/ \E i \in 1..Len(node.childs) : HasSplitLeaf(node.childs[i])

Covers(node, size) ==
    LET s == LeafPoints(node)
    IN Len(s) = size /\ Range(s) = 0..(size - 1)

\* C1: once the index is built, after buildIndex and after every addPoints
\* (either branch), the leaves of each tree hold every dataset index in
\* [0, size) exactly once.
C1_Coverage ==
    Built => \A t \in 1..trees_ : Covers(tree_roots_[t], Len(points_))

\* an incremental addPoints has split a leaf of the first tree of two
C1_Witness ==
    /\ Built /\ trees_ = 2 /\ op = "addPoints:insert"
    /\ Len(points_) = 3 /\ size_at_build_ < 3
    /\ HasSplitLeaf(tree_roots_[1])
    /\ \A t \in 1..trees_ : Covers(tree_roots_[t], 3)

RECURSIVE Fresh(_)
\* a tree as computeClustering leaves it on a new root: no inner node holds
\* points
Fresh(node) ==
    node.childs = <<>> \/
    (node.points = <<>> /\ \A i \in 1..Len(node.childs) : Fresh(node.childs[i]))

IsPrefix(a, b) == Len(a) <= Len(b) /\ SubSeq(b, 1, Len(a)) = a

RECURSIVE Extends(_, _)
\* new is old with points inserted: every inner node of old is kept with its
\* pivot, every leaf of old has only received points (and may have been split)
Extends(old, new) ==
    /\ new.pivot = old.pivot
    /\ IF old.childs = <<>>
       THEN IsPrefix(old.points, new.points)
       ELSE /\ new.points = old.points
            /\ Len(new.childs) = Len(old.childs)
            /\ \A i \in 1..Len(old.childs) : Extends(old.childs[i], new.childs[i])

\* C6: addPoints of M rows to a built index holding N points rebuilds the
\* forest over all N+M points and sets size_at_build_ to N+M exactly when
\* rebuild_threshold > 1 and size_at_build_ * rebuild_threshold < N+M; in
\* every other case it inserts the M points into the existing trees and
\* leaves size_at_build_ unchanged.
C6_RebuildThreshold ==
    (Built /\ Idle) =>
      \A rows \in SeqsUpTo(Coord, MaxRows), thr2 \in Thresholds2 :
        Len(points_) + Len(rows) <= MaxSize =>
        \A r \in addPoints(points_, tree_roots_, size_at_build_, rows, thr2) :
          LET N == Len(points_)
              M == Len(rows)
          IN /\ r.points = points_ \o rows
             /\ r.err = NoError
             /\ Len(r.roots) = trees_
             /\ \A t \in 1..trees_ : Covers(r.roots[t], N + M)
             /\ IF thr2 > 2 /\ size_at_build_ * thr2 < 2 * (N + M)
                THEN /\ r.op = "addPoints:rebuild"
                     /\ r.size_at_build = N + M
                     /\ \A t \in 1..trees_ : Fresh(r.roots[t])
                ELSE /\ r.op = "addPoints:insert"
                     /\ r.size_at_build = size_at_build_
                     /\ \A t \in 1..trees_ : Extends(tree_roots_[t], r.roots[t])

\* addPoints has rebuilt a forest that held a split leaf, and a later
\* addPoints would not rebuild at threshold 2 (size_at_build_ * 2 >= size + 1)
C6_Witness ==
    /\ Built /\ op = "addPoints:rebuild"
    /\ size_at_build_ = Len(points_) /\ size_at_build_ >= 2
    /\ \A t \in 1..trees_ : Fresh(tree_roots_[t])
    /\ \E t \in 1..trees_ : tree_roots_[t].childs # <<>>

\* C7: buildIndex with branching_ < 2 throws "Branching factor must be at
\* least 2" and leaves the forest and size_at_build_ as they were.
C7_BranchingError ==
    [][(branching_ < 2 /\ BuildIndex) =>
         /\ err' = BranchingError
         /\ tree_roots_' = tree_roots_
         /\ size_at_build_' = size_at_build_]_vars

\* buildIndex has thrown on a dataset of two points
C7_Witness ==
    /\ branching_ < 2 /\ op = "buildIndex" /\ err = BranchingError
    /\ Len(points_) = 2 /\ tree_roots_ = <<>> /\ size_at_build_ = 0

\* the center chooser returns fewer than branching_ centers on these points
ChooserFails(pts, indices) ==
    \A c \in chooseCenters(pts, indices) : Len(c) < branching_

AllLeaves == UNION {LeafNodes(tree_roots_[t]) : t \in 1..Len(tree_roots_)}

\* C8 as stated: every leaf holds at most leaf_size_ points unless an
\* insertion overflow (the leaf had reached branching_ points) could not be
\* split because the chooser returned fewer than branching_ centers.
C8_Original ==
    \A leaf \in AllLeaves :
        \/ Len(leaf.points) <= leaf_size_
        \/ /\ Len(leaf.points) >= branching_
           /\ ChooserFails(points_, leaf.points)

\* C8 amended: every leaf holds at most leaf_size_ points unless the chooser
\* returns fewer than branching_ centers on its points, be it a leaf that
\* buildIndex or an insertion overflow left unsplit or a leaf of fewer than
\* branching_ points, which addPointToTree does not re-cluster.
C8_LeafSizeBound ==
    \A leaf \in AllLeaves :
        \/ Len(leaf.points) <= leaf_size_
        \/ ChooserFails(points_, leaf.points)

\* an insertion overflow has left a leaf of more than leaf_size_ points
\* unsplit
C8_Witness ==
    /\ Built /\ op = "addPoints:insert"
    /\ \E leaf \in AllLeaves :
         /\ Len(leaf.points) > leaf_size_
         /\ Len(leaf.points) >= branching_
         /\ Len(points_) - 1 \in Range(leaf.points)

\* the indices of the points scored by a call, in the order of scoring
Scored(events) ==
    LET sc == SelectSeq(events, LAMBDA e : e.type = "score")
    IN [i \in 1..Len(sc) |-> sc[i].index]

Live == (0..(Len(points_) - 1)) \ removed_points_

RECURSIVE Smallest(_, _)
\* the k least distances from vec to the points of S, ascending
Smallest(S, k) ==
    IF k = 0 \/ S = {} THEN <<>>
    ELSE LET i == CHOOSE i \in S :
                    \A j \in S : distance_(Point(points_, i), call.vec)
                                   <= distance_(Point(points_, j), call.vec)
         IN <<distance_(Point(points_, i), call.vec)>> \o Smallest(S \ {i}, k - 1)

Dists(result) == [i \in 1..Len(result) |-> result[i].dist]

C3_RemovedRespect ==
    call # NoCall =>
        \A p \in 1..Len(call.events) :
            call.events[p].type = "score" =>
                call.events[p].index \notin removed_points_

\* a call has reached a leaf holding a removed point and has scored every
\* other point
C3_Witness ==
    /\ call # NoCall /\ removed_points_ # {} /\ Len(points_) = 3
    /\ call.checks = 2
    /\ \E p \in 1..Len(call.events) :
         /\ call.events[p].type = "leaf"
         /\ Range(call.events[p].points) \cap removed_points_ # {}
         /\ ~(call.events[p].checks >= call.maxChecks /\ call.events[p].full)

\* C4: no dataset index is scored twice in one call.
C4_CheckedSet ==
    call # NoCall =>
        \A p, r \in 1..Len(call.events) :
            (p < r /\ call.events[p].type = "score" /\ call.events[r].type = "score")
                => call.events[p].index # call.events[r].index

\* with two trees, a call has scanned two leaves that share a point: the
\* second one within budget, after the point was scored
C4_Witness ==
    /\ call # NoCall /\ trees_ = 2
    /\ \E p, r \in 1..Len(call.events) :
         /\ p < r
         /\ call.events[p].type = "score"
         /\ call.events[r].type = "leaf"
         /\ call.events[p].index \in Range(call.events[r].points)
         /\ ~(call.events[r].checks >= call.maxChecks /\ call.events[r].full)

\* the call of the state with another budget
Again(maxChecks) ==
    findNeighbors([pts |-> points_, removed |-> removed_points_,
                   vec |-> call.vec, k |-> call.k, maxChecks |-> maxChecks],
                  tree_roots_)

\* the greatest distance a result retains (-1 for none)
Worst(result) == IF result = <<>> THEN -1 ELSE result[Len(result)].dist

\* C5: for budgets c <= c2 the points scored with c are a prefix of those
\* scored with c2, and the greatest retained distance with c2 is not larger.
C5_Monotone ==
    call # NoCall =>
        \A c2 \in call.maxChecks..MaxChecks :
            LET s2 == Again(c2)
            IN /\ IsPrefix(Scored(call.events), Scored(s2.events))
               /\ Len(s2.result) >= Len(call.result)
               /\ Worst(s2.result) <= Worst(call.result)

\* a call that stopped on its budget, where one more check finds a nearer
\* point
C5_Witness ==
    /\ call # NoCall /\ call.maxChecks < MaxChecks
    /\ call.checks < Cardinality(Live)
    /\ Worst(Again(call.maxChecks + 1).result) < Worst(call.result)

Exhausted(e) == e.checks >= call.maxChecks /\ e.full

\* C9: once a descent reaches a leaf while checks >= checks_budget and the
\* result is full, no point is scored and the loop body does not run for the
\* rest of the call: checks and the result stay as they were.
C9_BudgetExhaustion ==
    call # NoCall =>
        \A p \in 1..Len(call.events) :
            (call.events[p].type = "leaf" /\ Exhausted(call.events[p])) =>
                /\ \A r \in (p + 1)..Len(call.events) :
                      /\ call.events[r].type = "leaf"
                      /\ call.events[r].checks = call.events[p].checks
                      /\ call.events[r].result = call.events[p].result
                /\ call.checks = call.events[p].checks
                /\ call.result = call.events[p].result

\* the descent of the first tree has exhausted the budget, the descent of
\* the second tree reaches a leaf with an unscored point and returns
C9_Witness ==
    /\ call # NoCall /\ trees_ = 2
    /\ \E p \in 1..Len(call.events) :
         /\ call.events[p].type = "leaf" /\ Exhausted(call.events[p])
         /\ Range(call.events[p].points) \ (Range(Scored(call.events)) \cup removed_points_) # {}

\* C10 as stated: no point is scored at a moment when checks >= checks_budget
\* and the result is full.
C10_Original ==
    call # NoCall =>
        \A p \in 1..Len(call.events) :
            call.events[p].type = "score" => ~Exhausted(call.events[p])

\* the points scored between event p, a leaf, and the next leaf or pop
ScoredIn(p) ==
    LET stop == {r \in (p + 1)..Len(call.events) : call.events[r].type # "score"}
        last == IF stop = {} THEN Len(call.events)
                ELSE (CHOOSE r \in stop : \A x \in stop : r <= x) - 1
    IN Scored(SubSeq(call.events, p + 1, last))

\* the points of event p, a leaf, that are neither scored before p nor removed
Unscored(p) ==
    SelectSeq(call.events[p].points,
              LAMBDA i : /\ i \notin Range(Scored(SubSeq(call.events, 1, p - 1)))
                         /\ i \notin removed_points_)

\* C10 amended: the budget is tested when a descent reaches a leaf, not
\* before each point.  A leaf reached while checks >= checks_budget and the
\* result is full scores nothing; any other leaf scores every point it holds
\* that is neither checked nor removed, also past the budget with a full
\* result.
C10_ScoringPastBudget ==
    call # NoCall =>
        \A p \in 1..Len(call.events) :
            call.events[p].type = "leaf" =>
                ScoredIn(p) = IF Exhausted(call.events[p]) THEN <<>> ELSE Unscored(p)

\* a leaf reached within budget has scored a point past the budget with a
\* full result
C10_Witness ==
    /\ call # NoCall
    /\ \E p \in 1..Len(call.events) :
         /\ call.events[p].type = "score" /\ Exhausted(call.events[p])

\* C11: whenever addPoints takes the incremental branch with a point to
\* insert, whatever the calls before it (construction alone, a buildIndex
\* that threw, earlier addPoints) and whatever the threshold, tree_roots_
\* holds trees_ roots: no call of addPoints reads a tree_roots_[j] that is
\* missing.  addPoints is the only operation of SpecIndex that sets op to
\* "crashed", and it does so exactly on that read.
C11_IncrementalRoots == ~Crashed

====
